---- MODULE Spec2Model ----
(***************************************************************************)
(* Model of clv_prediction.py: a batch script that loads a transaction     *)
(* table, cleans it, aggregates it into an RFM summary per customer, fits  *)
(* a BG/NBD and a Gamma-Gamma model, combines their predictions into a     *)
(* predicted CLV per customer, ranks the customers and writes a CSV file.  *)
(*                                                                         *)
(* Time is counted in ticks, OneDay ticks to the day, so that timestamps   *)
(* carry a time of day.  Floats are records: Fin(n), PosInf or NaN.        *)
(* The two fitted models are external: their fits either succeed or raise, *)
(* and their predictions are chosen from small sets of floats.             *)
(* The script is checked on four families of input tables: rows with every *)
(* kind of defect (SpecClean), valid rows at every time of day (SpecRFM),  *)
(* customers with one to MaxPurchases purchase days (SpecCLV) and the      *)
(* three-row scenario of the specification (SpecExample).                  *)
(***************************************************************************)
EXTENDS Integers, Sequences, FiniteSets

VARIABLES
    pc,                        \* position of the script
    file_status,               \* DATA_FILE on disk: "ok", "absent", "malformed"
    file_rows,                 \* the rows of DATA_FILE when it is readable
    df,                        \* the transaction DataFrame
    observation_period_end,    \* the observation cutoff, NaT or a timestamp
    rfm_df,                    \* the RFM summary, one row per customer
    rfm_df_repeat_customers,   \* its rows with frequency > 0
    predicted_purchases,       \* column of rfm_df
    merged_monetary,           \* the Series returned by the Gamma-Gamma model
    predicted_monetary_value,  \* column of rfm_df
    predicted_clv,             \* column of rfm_df
    top_clv_customers,         \* the ranking that is printed
    csv,                       \* clv_predictions.csv
    console,                   \* what the script printed, in order
    exit_code                  \* Running, or the exit status of the process

vars == <<pc, file_status, file_rows, df, observation_period_end, rfm_df,
          rfm_df_repeat_customers, predicted_purchases, merged_monetary,
          predicted_monetary_value, predicted_clv, top_clv_customers, csv,
          console, exit_code>>

(***************************************************************************)
(* Bounds of the input families.                                           *)
(***************************************************************************)
MaxDay == 1
MaxRowsClean == 2
MaxRowsRFM == 3
MaxPurchases == 3

(***************************************************************************)
(* Values.                                                                 *)
(***************************************************************************)
OneDay == 2
NaT == 0 - 1
NaNId == 0
TopN == 10
Running == 0 - 1

Fin(n) == [k |-> "fin", v |-> n]
PosInf == [k |-> "inf", v |-> 0]
NaN == [k |-> "nan", v |-> 0]

IsNaN(x) == x.k = "nan"
IsZero(x) == x.k = "fin" /\ x.v = 0

\* float multiplication of non-negative operands
FMul(a, b) ==
    IF IsNaN(a) \/ IsNaN(b) THEN NaN
    ELSE IF a.k = "inf" \/ b.k = "inf"
         THEN IF IsZero(a) \/ IsZero(b) THEN NaN ELSE PosInf
         ELSE Fin(a.v * b.v)

\* a >= b on non-NaN floats
FGeq(a, b) ==
    \/ a.k = "inf"
    \/ a.k = "fin" /\ b.k = "fin" /\ a.v >= b.v

RECURSIVE SumSeq(_)
SumSeq(s) == IF s = <<>> THEN 0 ELSE Head(s) + SumSeq(Tail(s))

RECURSIVE SetToSortedSeq(_)
SetToSortedSeq(S) ==
    IF S = {} THEN <<>>
    ELSE LET m == CHOOSE x \in S : \A y \in S : x <= y
         IN <<m>> \o SetToSortedSeq(S \ {m})

RECURSIVE GCD(_, _)
GCD(a, b) == IF b = 0 THEN a ELSE GCD(b, a % b)

\* the mean s / n as a reduced fraction; fillna(0) when there is nothing to average
MeanOrZero(s, n) ==
    IF n = 0 THEN [num |-> 0, den |-> 1]
    ELSE LET g == GCD(s, n) IN [num |-> s \div g, den |-> n \div g]

(***************************************************************************)
(* 1. Cleaning (lines 39-55).                                              *)
(***************************************************************************)
\* Series.str.contains(ch): the character occurs anywhere in the string
Contains(s, ch) == \E i \in 1..Len(s) : s[i] = ch

HasCustomer(r) == r.customer_id # NaNId
\* variant: only an invoice that starts with the marker is dropped
NotCancelledPrefix(r) == ~(Len(r.invoice) > 0 /\ r.invoice[1] = "C")
NotCancelled(r) == ~Contains(r.invoice, "C")
PositiveQuantity(r) == r.quantity > 0
PositiveUnitPrice(r) == r.unit_price > 0

WithTotalPrice(r) ==
    [invoice |-> r.invoice, customer_id |-> r.customer_id,
     quantity |-> r.quantity, unit_price |-> r.unit_price,
     invoice_date |-> r.invoice_date,
     total_price |-> r.quantity * r.unit_price]

RECURSIVE MapTotalPrice(_)
MapTotalPrice(s) ==
    IF s = <<>> THEN <<>> ELSE <<WithTotalPrice(Head(s))>> \o MapTotalPrice(Tail(s))

CleanTransactions(rows) ==
    LET d1 == SelectSeq(rows, HasCustomer)
        d2 == SelectSeq(d1, NotCancelled)
        d3 == SelectSeq(d2, PositiveQuantity)
        d4 == SelectSeq(d3, PositiveUnitPrice)
    IN MapTotalPrice(d4)

(***************************************************************************)
(* 2. Observation cutoff and RFM summary (lines 64-86).                    *)
(***************************************************************************)
\* Series.max(): NaT on an empty column
MaxDate(d) ==
    IF d = <<>> THEN NaT
    ELSE CHOOSE t \in {d[i].invoice_date : i \in 1..Len(d)} :
            \A i \in 1..Len(d) : d[i].invoice_date <= t

\* variant: the cutoff is the last transaction itself
PlusNothing(t) == t
\* + dt.timedelta(days=1): NaT stays NaT
PlusOneDay(t) == IF t = NaT THEN NaT ELSE t + OneDay

\* variant: formatting NaT does not raise
StrftimeNeverRaises(t) == FALSE
\* NaT.strftime raises ValueError
StrftimeRaises(t) == t = NaT

\* to_period('D').to_timestamp(): midnight of the timestamp's day
FloorDay(t) == IF t = NaT THEN NaT ELSE (t \div OneDay) * OneDay

CustomerIds(d) == {d[i].customer_id : i \in 1..Len(d)}

\* the days (periods) on which customer c bought, up to the cutoff
PurchaseDays(d, c, cutoff) ==
    {FloorDay(d[i].invoice_date) : i \in
        {j \in 1..Len(d) : /\ d[j].customer_id = c
                           /\ FloorDay(d[j].invoice_date) <= cutoff}}

RowsOn(d, c, day) ==
    SelectSeq(d, LAMBDA r : r.customer_id = c /\ FloorDay(r.invoice_date) = day)

RECURSIVE SumTotalPrice(_)
SumTotalPrice(s) ==
    IF s = <<>> THEN 0 ELSE Head(s).total_price + SumTotalPrice(Tail(s))

MinOf(S) == CHOOSE x \in S : \A y \in S : x <= y
MaxOf(S) == CHOOSE x \in S : \A y \in S : y <= x

\* variant: the age is measured from the last purchase instead of the first
SummaryRowAgeFromLast(d, c, cutoff) ==
    LET days == PurchaseDays(d, c, cutoff)
        first == MinOf(days)
        last == MaxOf(days)
        repeat == SetToSortedSeq(days \ {first})
        spent == SumSeq([i \in 1..Len(repeat) |-> SumTotalPrice(RowsOn(d, c, repeat[i]))])
    IN [customer_id |-> c,
        frequency |-> Cardinality(days) - 1,
        recency |-> (last - first) \div OneDay,
        T |-> (cutoff - last) \div OneDay,
        monetary_value |-> MeanOrZero(spent, Cardinality(days) - 1)]

\* lifetimes.utils.summary_data_from_transaction_data for one customer, with
\* the default freq = 'D': every timestamp, the cutoff included, is first
\* truncated to its day; purchases of one day are one purchase occasion
SummaryRow(d, c, cutoff) ==
    LET days == PurchaseDays(d, c, cutoff)
        first == MinOf(days)
        last == MaxOf(days)
        repeat == SetToSortedSeq(days \ {first})
        spent == SumSeq([i \in 1..Len(repeat) |-> SumTotalPrice(RowsOn(d, c, repeat[i]))])
    IN [customer_id |-> c,
        frequency |-> Cardinality(days) - 1,
        recency |-> (last - first) \div OneDay,
        T |-> (cutoff - first) \div OneDay,
        monetary_value |-> MeanOrZero(spent, Cardinality(days) - 1)]

summary_data_from_transaction_data(d, end) ==
    LET cutoff == FloorDay(end)
        ids == SetToSortedSeq({c \in CustomerIds(d) : PurchaseDays(d, c, cutoff) # {}})
    IN [i \in 1..Len(ids) |-> SummaryRow(d, ids[i], cutoff)]

IsRepeat(r) == r.frequency > 0


(***************************************************************************)
(* 3. The external models (lines 109-154).                                 *)
(***************************************************************************)
\* what bgf.predict may return for one customer
PurchaseVals == {Fin(0), Fin(1), PosInf, NaN}

\* what ggf.conditional_expected_average_profit may return for one customer
MonetaryVals == {Fin(10), Fin(20)}

Perms(n) == {p \in [1..n -> 1..n] : \A i, j \in 1..n : p[i] = p[j] => i = j}

\* bgf.predict: one float per row of the frame, in the frame's row order
BgfPredict(frame) == [1..Len(frame) -> PurchaseVals]

\* ggf.conditional_expected_average_profit: a Series with one value per
\* customer of the subset, labelled by customer_id, its rows in any order
GgfPredict(subset) ==
    {[i \in 1..Len(subset) |-> [customer_id |-> subset[p[i]].customer_id,
                                value |-> v[p[i]]]] :
        p \in Perms(Len(subset)), v \in [1..Len(subset) -> MonetaryVals]}

(***************************************************************************)
(* 4. The combiner (lines 148-160).                                        *)
(***************************************************************************)
\* Series.values: the values without their labels
Values(series) == [i \in 1..Len(series) |-> series[i].value]

\* the position of row i among the rows of the mask
MaskRank(frame, i) == Cardinality({j \in 1..i : IsRepeat(frame[j])})

\* frame.loc[frame['frequency'] > 0, column] = values: the k-th masked row
\* takes the k-th value
AssignMasked(frame, column, values) ==
    [i \in 1..Len(frame) |->
        IF IsRepeat(frame[i]) THEN values[MaskRank(frame, i)] ELSE column[i]]

Zeros(frame) == [i \in 1..Len(frame) |-> Fin(0)]

Product(a, b) == [i \in 1..Len(a) |-> FMul(a[i], b[i])]

(***************************************************************************)
(* 5. Ranking and export (lines 166-171).                                  *)
(***************************************************************************)
\* row i may stand before row j in sort_values(ascending=False): NaN last,
\* in their original order; equal values in the order the sort leaves them
MayPrecede(col, i, j) ==
    IF IsNaN(col[i]) THEN IsNaN(col[j]) /\ i < j
    ELSE IsNaN(col[j]) \/ FGeq(col[i], col[j])

\* variant: the sort is ascending
SortOrdersAscending(col) ==
    {p \in Perms(Len(col)) :
        \A a, b \in 1..Len(col) : a < b => MayPrecede(col, p[b], p[a])}

\* the row orders sort_values(by='predicted_clv', ascending=False) can produce
\* (kind='quicksort', which is not stable: equal values come in any order)
SortOrders(col) ==
    {p \in Perms(Len(col)) :
        \A a, b \in 1..Len(col) : a < b => MayPrecede(col, p[a], p[b])}

Min2(a, b) == IF a < b THEN a ELSE b

\* DataFrame.head(n)
HeadN(s, n) == SubSeq(s, 1, Min2(n, Len(s)))

RankedRows(frame, purchases, monetary, clv, p) ==
    [i \in 1..Len(frame) |->
        [customer_id |-> frame[p[i]].customer_id,
         predicted_purchases |-> purchases[p[i]],
         predicted_monetary_value |-> monetary[p[i]],
         predicted_clv |-> clv[p[i]]]]

CsvRows(frame, clv) ==
    [i \in 1..Len(frame) |->
        [customer_id |-> frame[i].customer_id, predicted_clv |-> clv[i]]]

\* exit() without an argument: SystemExit(None), status 0
ExitStatus == 0
\* an uncaught exception: traceback on stderr, status 1
CrashStatus == 1

(***************************************************************************)
(* Input tables.                                                           *)
(***************************************************************************)
PlainInvoice == <<"5", "3">>
CancelInvoice == <<"C", "5">>
MarkedInvoice == <<"5", "C">>

Row(c, inv, q, p, t) ==
    [customer_id |-> c, invoice |-> inv, quantity |-> q, unit_price |-> p,
     invoice_date |-> t]

SeqsUpTo(S, n) == UNION {[1..k -> S] : k \in 0..n}

\* rows with every kind of defect, all at tick 0
CleanFamilyRows ==
    {Row(c, inv, q, p, 0) :
        c \in {NaNId, 1, 2}, inv \in {PlainInvoice, CancelInvoice, MarkedInvoice},
        q \in {0 - 1, 0, 2}, p \in {0, 5}}

\* valid rows at every tick of days 0..MaxDay
RfmFamilyRows ==
    {Row(c, PlainInvoice, 1, 5, t) :
        c \in {1, 2}, t \in 0..((MaxDay + 1) * OneDay - 1)}

\* the scenario of the specification: Day0, Day10, cutoff Day11
ExampleTable ==
    <<Row(1, PlainInvoice, 2, 5, 0), Row(1, PlainInvoice, 1, 20, 10 * OneDay),
      Row(2, PlainInvoice, 1, 100, 0)>>

\* customer c buys once a day on days 0..n-1; customers 1 and 2 buy up to
\* MaxPurchases times, customer 3 once or never
DailyRows(c, n) == [i \in 1..n |-> Row(c, PlainInvoice, 1, 5, (i - 1) * OneDay)]

ClvFamilyTables ==
    {DailyRows(1, n1) \o DailyRows(2, n2) \o DailyRows(3, n3) :
        n1 \in 1..MaxPurchases, n2 \in 1..MaxPurchases, n3 \in 0..1}

CleanFamilyTables == SeqsUpTo(CleanFamilyRows, MaxRowsClean)
Chronological(s) == \A i, j \in 1..Len(s) : i < j => s[i].invoice_date <= s[j].invoice_date

\* tables of valid rows in the order of their timestamps, and the scenario
RfmFamilyTables ==
    {s \in SeqsUpTo(RfmFamilyRows, MaxRowsRFM) : Chronological(s)} \cup {ExampleTable}

(***************************************************************************)
(* The script.                                                             *)
(***************************************************************************)
InitWith(tables) ==
    /\ pc = "load"
    /\ \/ file_status = "ok" /\ file_rows \in tables
       \/ file_status \in {"absent", "malformed"} /\ file_rows = <<>>
    /\ df = <<>>
    /\ observation_period_end = NaT
    /\ rfm_df = <<>>
    /\ rfm_df_repeat_customers = <<>>
    /\ predicted_purchases = <<>>
    /\ merged_monetary = <<>>
    /\ predicted_monetary_value = <<>>
    /\ predicted_clv = <<>>
    /\ top_clv_customers = <<>>
    /\ csv = [written |-> FALSE, rows |-> <<>>]
    /\ console = <<>>
    /\ exit_code = Running

Init == InitWith(CleanFamilyTables \cup RfmFamilyTables \cup ClvFamilyTables)
InitClean == InitWith(CleanFamilyTables)
InitRFM == InitWith(RfmFamilyTables)
InitCLV == InitWith(ClvFamilyTables)
InitExample == InitWith({ExampleTable})

\* lines 18-20
LoadOk ==
    /\ pc = "load" /\ file_status = "ok"
    /\ df' = file_rows
    /\ console' = Append(console, "loaded")
    /\ pc' = "clean"
    /\ UNCHANGED <<file_status, file_rows, observation_period_end, rfm_df,
                   rfm_df_repeat_customers, predicted_purchases, merged_monetary,
                   predicted_monetary_value, predicted_clv, top_clv_customers,
                   csv, exit_code>>

\* lines 21-23
LoadNotFound ==
    /\ pc = "load" /\ file_status = "absent"
    /\ console' = Append(console, "error: not found")
    /\ exit_code' = ExitStatus
    /\ pc' = "exited"
    /\ UNCHANGED <<file_status, file_rows, df, observation_period_end, rfm_df,
                   rfm_df_repeat_customers, predicted_purchases, merged_monetary,
                   predicted_monetary_value, predicted_clv, top_clv_customers, csv>>

\* lines 24-26
LoadError ==
    /\ pc = "load" /\ file_status = "malformed"
    /\ console' = Append(console, "error: loading")
    /\ exit_code' = ExitStatus
    /\ pc' = "exited"
    /\ UNCHANGED <<file_status, file_rows, df, observation_period_end, rfm_df,
                   rfm_df_repeat_customers, predicted_purchases, merged_monetary,
                   predicted_monetary_value, predicted_clv, top_clv_customers, csv>>

\* lines 29-57
Clean ==
    /\ pc = "clean"
    /\ df' = CleanTransactions(df)
    /\ console' = Append(console, "cleaned")
    /\ pc' = "cutoff"
    /\ UNCHANGED <<file_status, file_rows, observation_period_end, rfm_df,
                   rfm_df_repeat_customers, predicted_purchases, merged_monetary,
                   predicted_monetary_value, predicted_clv, top_clv_customers,
                   csv, exit_code>>

\* lines 64-65
Cutoff ==
    /\ pc = "cutoff"
    /\ observation_period_end' = PlusOneDay(MaxDate(df))
    /\ IF StrftimeRaises(observation_period_end')
       THEN /\ console' = Append(console, "traceback")
            /\ exit_code' = CrashStatus
            /\ pc' = "crashed"
       ELSE /\ console' = Append(console, "cutoff")
            /\ exit_code' = exit_code
            /\ pc' = "rfm"
    /\ UNCHANGED <<file_status, file_rows, df, rfm_df, rfm_df_repeat_customers,
                   predicted_purchases, merged_monetary, predicted_monetary_value,
                   predicted_clv, top_clv_customers, csv>>

\* lines 72-87
Aggregate ==
    /\ pc = "rfm"
    /\ rfm_df' = summary_data_from_transaction_data(df, observation_period_end)
    /\ rfm_df_repeat_customers' = SelectSeq(rfm_df', IsRepeat)
    /\ console' = Append(console, "rfm")
    /\ pc' = "fit_bg"
    /\ UNCHANGED <<file_status, file_rows, df, observation_period_end,
                   predicted_purchases, merged_monetary, predicted_monetary_value,
                   predicted_clv, top_clv_customers, csv, exit_code>>

\* variant: the exception is swallowed and the script goes on to the export
CrashSwallowed ==
    /\ console' = Append(console, "traceback")
    /\ exit_code' = exit_code
    /\ pc' = "export"

\* a fit raises: the exception is not caught
Crash ==
    /\ console' = Append(console, "traceback")
    /\ exit_code' = CrashStatus
    /\ pc' = "crashed"

\* lines 109-113
FitBgf ==
    /\ pc = "fit_bg"
    /\ console' = Append(console, "bgf fitted")
    /\ pc' = "predict_bg"
    /\ UNCHANGED <<file_status, file_rows, df, observation_period_end, rfm_df,
                   rfm_df_repeat_customers, predicted_purchases, merged_monetary,
                   predicted_monetary_value, predicted_clv, top_clv_customers,
                   csv, exit_code>>

\* line 110 raises
FitBgfFails ==
    /\ pc = "fit_bg"
    /\ Crash
    /\ UNCHANGED <<file_status, file_rows, df, observation_period_end, rfm_df,
                   rfm_df_repeat_customers, predicted_purchases, merged_monetary,
                   predicted_monetary_value, predicted_clv, top_clv_customers, csv>>

\* lines 121-128
PredictPurchases ==
    /\ pc = "predict_bg"
    /\ predicted_purchases' \in BgfPredict(rfm_df)
    /\ console' = Append(console, "purchases predicted")
    /\ pc' = "fit_gg"
    /\ UNCHANGED <<file_status, file_rows, df, observation_period_end, rfm_df,
                   rfm_df_repeat_customers, merged_monetary,
                   predicted_monetary_value, predicted_clv, top_clv_customers,
                   csv, exit_code>>

\* lines 132-141
FitGgf ==
    /\ pc = "fit_gg"
    /\ console' = Append(console, "ggf fitted")
    /\ pc' = "predict_gg"
    /\ UNCHANGED <<file_status, file_rows, df, observation_period_end, rfm_df,
                   rfm_df_repeat_customers, predicted_purchases, merged_monetary,
                   predicted_monetary_value, predicted_clv, top_clv_customers,
                   csv, exit_code>>

\* line 137 raises
FitGgfFails ==
    /\ pc = "fit_gg"
    /\ Crash
    /\ UNCHANGED <<file_status, file_rows, df, observation_period_end, rfm_df,
                   rfm_df_repeat_customers, predicted_purchases, merged_monetary,
                   predicted_monetary_value, predicted_clv, top_clv_customers, csv>>

\* lines 148-154
PredictMonetary ==
    /\ pc = "predict_gg"
    /\ predicted_monetary_value' = Zeros(rfm_df)
    /\ merged_monetary' \in GgfPredict(rfm_df_repeat_customers)
    /\ pc' = "merge"
    /\ UNCHANGED <<file_status, file_rows, df, observation_period_end, rfm_df,
                   rfm_df_repeat_customers, predicted_purchases, predicted_clv,
                   top_clv_customers, csv, console, exit_code>>

\* lines 155-162
Combine ==
    /\ pc = "merge"
    /\ predicted_monetary_value' =
          AssignMasked(rfm_df, predicted_monetary_value, Values(merged_monetary))
    /\ predicted_clv' = Product(predicted_purchases, predicted_monetary_value')
    /\ console' = Append(console, "clv complete")
    /\ pc' = "rank"
    /\ UNCHANGED <<file_status, file_rows, df, observation_period_end, rfm_df,
                   rfm_df_repeat_customers, predicted_purchases, merged_monetary,
                   top_clv_customers, csv, exit_code>>

\* lines 165-167
Rank ==
    /\ pc = "rank"
    /\ \E p \in SortOrders(predicted_clv) :
          top_clv_customers' =
              HeadN(RankedRows(rfm_df, predicted_purchases,
                               predicted_monetary_value, predicted_clv, p), TopN)
    /\ console' = Append(console, "top customers")
    /\ pc' = "export"
    /\ UNCHANGED <<file_status, file_rows, df, observation_period_end, rfm_df,
                   rfm_df_repeat_customers, predicted_purchases, merged_monetary,
                   predicted_monetary_value, predicted_clv, csv, exit_code>>

\* lines 170-174 and the normal end of the script
Export ==
    /\ pc = "export"
    /\ csv' = [written |-> TRUE, rows |-> CsvRows(rfm_df, predicted_clv)]
    /\ console' = Append(console, "saved")
    /\ exit_code' = 0
    /\ pc' = "done"
    /\ UNCHANGED <<file_status, file_rows, df, observation_period_end, rfm_df,
                   rfm_df_repeat_customers, predicted_purchases, merged_monetary,
                   predicted_monetary_value, predicted_clv, top_clv_customers>>

Next ==
    \/ LoadOk
    \/ LoadNotFound
    \/ LoadError
    \/ Clean
    \/ Cutoff
    \/ Aggregate
    \/ FitBgf
    \/ FitBgfFails
    \/ PredictPurchases
    \/ FitGgf
    \/ FitGgfFails
    \/ PredictMonetary
    \/ Combine
    \/ Rank
    \/ Export

Spec == Init /\ [][Next]_vars
SpecClean == InitClean /\ [][Next]_vars
SpecRFM == InitRFM /\ [][Next]_vars
SpecCLV == InitCLV /\ [][Next]_vars
SpecExample == InitExample /\ [][Next]_vars


(***************************************************************************)
(* Properties.                                                             *)
(***************************************************************************)
Printed(m) == \E i \in 1..Len(console) : console[i] = m

RowIds(frame) == {frame[i].customer_id : i \in 1..Len(frame)}

Rows(c) == {i \in 1..Len(df) : df[i].customer_id = c}

FirstPurchase(c) ==
    CHOOSE t \in {df[i].invoice_date : i \in Rows(c)} :
        \A i \in Rows(c) : t <= df[i].invoice_date

LastTransaction ==
    CHOOSE t \in {df[i].invoice_date : i \in 1..Len(df)} :
        \A i \in 1..Len(df) : df[i].invoice_date <= t

Midnight(t) == t - (t % OneDay)

\* C1: once the combiner has run, every customer with frequency = 0 has
\* predicted_monetary_value exactly 0 and predicted_clv exactly 0, never NaN,
\* whatever the purchase predictor returned.
ClaimC1 ==
    Printed("clv complete") =>
        \A i \in 1..Len(rfm_df) :
            rfm_df[i].frequency = 0 =>
                /\ predicted_monetary_value[i] = Fin(0)
                /\ predicted_clv[i] = Fin(0)

\* C2: after the merge every customer with frequency > 0 holds the value the
\* monetary predictor returned for that customer_id, and the customers of the
\* returned Series are exactly the repeat customers, one row each, for any
\* order of the returned rows.
ClaimC2 ==
    Printed("clv complete") =>
        /\ Len(merged_monetary) = Len(rfm_df_repeat_customers)
        /\ RowIds(merged_monetary) = RowIds(rfm_df_repeat_customers)
        /\ \A i \in 1..Len(rfm_df) :
              rfm_df[i].frequency > 0 =>
                  \E j \in 1..Len(merged_monetary) :
                      /\ merged_monetary[j].customer_id = rfm_df[i].customer_id
                      /\ predicted_monetary_value[i] = merged_monetary[j].value

\* C3: when loading fails the script prints an error, ends with a non-zero
\* exit status and has cleaned, aggregated, fitted and written nothing.
ClaimC3 ==
    (file_status # "ok" /\ pc # "load") =>
        /\ pc = "exited"
        /\ Len(console) = 1
        /\ console[1] \in {"error: not found", "error: loading"}
        /\ exit_code # Running
        /\ exit_code # 0
        /\ df = <<>> /\ rfm_df = <<>> /\ predicted_clv = <<>>
        /\ ~csv.written

\* C4: when the source loads and cleaning removes every row, the run ends in
\* a reported error (traceback, non-zero exit status) before any aggregation
\* and the output file is never written.
TheoremC4 ==
    (Printed("cleaned") /\ df = <<>>) =>
        /\ pc \in {"cutoff", "crashed"}
        /\ ~csv.written
        /\ ~Printed("rfm")
        /\ pc = "crashed" =>
              /\ exit_code # Running /\ exit_code # 0
              /\ console[Len(console)] = "traceback"

WitnessC4 ==
    /\ pc = "crashed"
    /\ Len(file_rows) = MaxRowsClean
    /\ df = <<>>

AllStages ==
    <<"loaded", "cleaned", "cutoff", "rfm", "bgf fitted", "purchases predicted",
      "ggf fitted", "clv complete", "top customers", "saved">>

\* C5: the output file is written only after every stage has completed, each
\* once, and then holds one predicted_clv row per customer of the RFM summary;
\* a failed fit ends the run at once, without a retry and without output.
TheoremC5 ==
    /\ csv.written =>
          /\ console = AllStages
          /\ Len(csv.rows) = Len(rfm_df)
          /\ \A i \in 1..Len(rfm_df) :
                /\ csv.rows[i].customer_id = rfm_df[i].customer_id
                /\ csv.rows[i].predicted_clv = predicted_clv[i]
    /\ Printed("traceback") =>
          /\ pc = "crashed"
          /\ ~csv.written
          /\ console[Len(console)] = "traceback"
          /\ \A i, j \in 1..Len(console) : console[i] = console[j] => i = j

WitnessC5 ==
    /\ csv.written
    /\ \E i, j \in 1..Len(rfm_df) : rfm_df[i].frequency = 0 /\ rfm_df[j].frequency > 0

ValidRow(r) ==
    /\ r.customer_id # NaNId
    /\ r.quantity >= 1
    /\ r.unit_price >= 1
    /\ \A k \in 1..Len(r.invoice) : r.invoice[k] # "C"

TheoremC8 ==
    Printed("rfm") =>
        \A i \in 1..Len(rfm_df) :
            /\ rfm_df[i].recency >= 0
            /\ rfm_df[i].T >= 0
            /\ rfm_df[i].recency <= rfm_df[i].T

WitnessC8 ==
    /\ Printed("rfm")
    /\ \E i, j \in 1..Len(rfm_df) :
          /\ rfm_df[i].recency > 0
          /\ rfm_df[j].recency = 0 /\ rfm_df[j].T > rfm_df[i].recency

ExampleSummary ==
    <<[customer_id |-> 1, frequency |-> 1, recency |-> 10, T |-> 11,
       monetary_value |-> [num |-> 20, den |-> 1]],
      [customer_id |-> 2, frequency |-> 0, recency |-> 0, T |-> 11,
       monetary_value |-> [num |-> 0, den |-> 1]]>>

\* C9: a customer with exactly one cleaned transaction has frequency 0,
\* recency 0, monetary_value 0 and age = cutoff - that transaction's
\* timestamp; in the scenario (Day0, Day10, cutoff Day11) customer 1 gets
\* frequency 1, recency 10, age 11, monetary_value 20 and customer 2 gets
\* frequency 0, recency 0, age 11, monetary_value 0, predicted_clv 0.
ClaimC9 ==
    /\ Printed("rfm") =>
          \A i \in 1..Len(rfm_df) :
              Cardinality(Rows(rfm_df[i].customer_id)) = 1 =>
                  /\ rfm_df[i].frequency = 0
                  /\ rfm_df[i].recency = 0
                  /\ rfm_df[i].monetary_value.num = 0
                  /\ rfm_df[i].T * OneDay =
                        observation_period_end - FirstPurchase(rfm_df[i].customer_id)
    /\ (Printed("rfm") /\ file_rows = ExampleTable) =>
          /\ observation_period_end = 11 * OneDay
          /\ rfm_df = ExampleSummary
    /\ (Printed("clv complete") /\ file_rows = ExampleTable) =>
          predicted_clv[2] = Fin(0)

Less(a, b) ==
    /\ a.k # "nan" /\ b.k # "nan"
    /\ \/ a.k = "fin" /\ b.k = "inf"
       \/ a.k = "fin" /\ b.k = "fin" /\ a.v < b.v

\* C10 as stated: the ranking is in descending order of predicted_clv and
\* customers with equal predicted_clv stand in ascending customer_id order.
ClaimC10 ==
    Printed("top customers") =>
        \A a, b \in 1..Len(top_clv_customers) :
            a < b =>
                /\ ~Less(top_clv_customers[a].predicted_clv,
                         top_clv_customers[b].predicted_clv)
                /\ top_clv_customers[a].predicted_clv = top_clv_customers[b].predicted_clv
                      => top_clv_customers[a].customer_id < top_clv_customers[b].customer_id

\* C10 amended: the ranking holds the TopN first customers in descending
\* order of predicted_clv, each customer once with its own values, rows whose
\* predicted_clv is NaN last; the order of customers with equal predicted_clv
\* is not fixed.
TheoremC10 ==
    Printed("top customers") =>
        /\ Len(top_clv_customers) = Min2(TopN, Len(rfm_df))
        /\ \A a, b \in 1..Len(top_clv_customers) :
              a < b =>
                  /\ top_clv_customers[a].customer_id # top_clv_customers[b].customer_id
                  /\ ~Less(top_clv_customers[a].predicted_clv,
                           top_clv_customers[b].predicted_clv)
                  /\ top_clv_customers[a].predicted_clv.k = "nan"
                        => top_clv_customers[b].predicted_clv.k = "nan"
        /\ \A a \in 1..Len(top_clv_customers) :
              \E i \in 1..Len(rfm_df) :
                  /\ rfm_df[i].customer_id = top_clv_customers[a].customer_id
                  /\ predicted_clv[i] = top_clv_customers[a].predicted_clv

WitnessC10 ==
    /\ Printed("top customers")
    /\ Len(top_clv_customers) = 3
    /\ top_clv_customers[1].predicted_clv = Fin(10)
    /\ top_clv_customers[2].predicted_clv = Fin(0)
    /\ top_clv_customers[3].predicted_clv = Fin(0)
    /\ top_clv_customers[2].customer_id > top_clv_customers[3].customer_id

====
